---------------------------- MODULE Spec2Model ----------------------------
(***************************************************************************)
(* GoCreate -> monday.com customer sync (src/src/index.ts).                *)
(*                                                                         *)
(* The program is an HTTP server with two POST handlers that both call     *)
(* runSync.  A handler is an async function: between two awaits it runs    *)
(* alone, at an await other requests may run.  Every action below is one   *)
(* awaited call of one request taking effect, followed by the code of      *)
(* that request up to its next await (or to the handler's answer).         *)
(*                                                                         *)
(* Time is in milliseconds since 00:00 UTC of the day before the spring    *)
(* daylight-saving change of Europe/Stockholm.  An ISO timestamp           *)
(* (Date.toISOString) is modelled by its millisecond value.  Strings       *)
(* the code trims or lowercases are sequences of one-character strings.    *)
(* An env var, header or field that is unset is the empty sequence: the    *)
(* code treats both alike (!v, ?? "").                                     *)
(*                                                                         *)
(* The server is modelled with two request slots: at most two requests     *)
(* are served at a time, which is what every race of the code takes.       *)
(* An awaited call takes effect at the instant its action is taken; the    *)
(* five secrets.get of getSecrets and the mustGetEnv reads that follow     *)
(* are one action, as they touch nothing another request can change.       *)
(* storage.set is taken to succeed: the code does not look at its result.  *)
(***************************************************************************)
EXTENDS Integers, Sequences, FiniteSets

\* ------------------------------------------------------------- bounds
\* HTTP requests the scheduler and operators send in one behaviour.
MaxRequests == 2
\* Customers in one answer of the source system.
MaxCustomers == 2
\* Times the clock jumps (a minute, a day) besides the per-record sleeps.
MaxTicks == 1
\* Incidents in one behaviour: a failure of the outside world (a missing
\* secret, a failed storage read, an error of the source system or of the
\* board system), or a request that arrives while another is being served.
MaxIncidents == 1

\* ---------------------------------------------------- program constants
SleepMs == 120
LookbackDays == 1

MinuteMs == 60 * 1000
HourMs == 60 * MinuteMs
DayMs == 24 * HourMs

ranKey == "sync:lastRunDateStockholm"
lastRunKey == "sync:lastRunISO"

None == <<>>
Some(v) == <<v>>

\* ------------------------------------------------------------- strings
IsSpace(c) == c = " "

RECURSIVE TrimStart(_)
TrimStart(s) ==
  IF s # <<>> /\ IsSpace(Head(s)) THEN TrimStart(Tail(s)) ELSE s

RECURSIVE TrimEnd(_)
TrimEnd(s) ==
  IF s # <<>> /\ IsSpace(s[Len(s)]) THEN TrimEnd(SubSeq(s, 1, Len(s) - 1)) ELSE s

\* String.prototype.trim
Trim(s) == TrimEnd(TrimStart(s))

UpperChars == <<"A", "E", "R", "T", "U", "K">>
LowerChars == <<"a", "e", "r", "t", "u", "k">>

LowerChar(c) ==
  IF \E k \in DOMAIN UpperChars : UpperChars[k] = c
  THEN LowerChars[CHOOSE k \in DOMAIN UpperChars : UpperChars[k] = c]
  ELSE c

\* String.prototype.toLowerCase
ToLowerCase(s) == [k \in DOMAIN s |-> LowerChar(s[k])]

\* --------------------------------------------------------- env helpers
TrueWords == { <<"1">>, <<"t","r","u","e">>, <<"y","e","s">>, <<"y">>, <<"o","n">> }

getEnv(v) == IF v # <<>> /\ Trim(v) # <<>> THEN Trim(v) ELSE None

getEnvBool(v, fallback) ==
  IF v = <<>> THEN fallback ELSE ToLowerCase(v) \in TrueWords

\* ---------------------------------------------------------------- time
\* Europe/Stockholm: UTC+1, and UTC+2 from 01:00 UTC of the last Sunday of
\* March, which is day 1 of the model's time axis.
DstStartMs == DayMs + HourMs

StockholmOffsetMs(t) == IF t >= DstStartMs THEN 2 * HourMs ELSE HourMs

stockholmParts(t) ==
  LET local == t + StockholmOffsetMs(t)
  IN  [ yyyyMMdd |-> local \div DayMs,
        hour     |-> (local % DayMs) \div HourMs,
        minute   |-> (local % HourMs) \div MinuteMs ]

isoDaysAgoUtc(t, days) == t - days * DayMs

isValidIsoDate(s) == s \in Int

\* ------------------------------------------------------- input domains
\* Values of customer.Email the source system sends: a blank one (an
\* absent Email is read as "" and goes the same way) and an address with
\* whitespace and an upper-case letter.
EmailInputs == { <<" ">>, <<" ", "A">> }

RECURSIVE SeqsUpTo(_, _)
SeqsUpTo(S, n) ==
  IF n = 0 THEN { <<>> }
  ELSE LET shorter == SeqsUpTo(S, n - 1)
       IN  shorter \cup { Append(q, x) : q \in shorter, x \in S }

CustomerLists == SeqsUpTo({ [Email |-> e] : e \in EmailInputs }, MaxCustomers)

\* Answers of POST /Customer/ByDateRange/.
SourceResponses ==
  { [ok |-> FALSE, IsValidResult |-> TRUE, CustomerInfo |-> <<>>],
    [ok |-> TRUE, IsValidResult |-> FALSE, CustomerInfo |-> <<>>] }
  \cup { [ok |-> TRUE, IsValidResult |-> TRUE, CustomerInfo |-> l] : l \in CustomerLists }

\* Answers of the board system's GraphQL endpoint.
MondayResponses ==
  { [status |-> 200, errors |-> <<>>, data |-> TRUE],
    [status |-> 200, errors |-> <<>>, data |-> FALSE],
    [status |-> 200, errors |-> <<"Unauthorized">>, data |-> FALSE],
    [status |-> 200, errors |-> <<"Complexity budget exhausted">>, data |-> FALSE],
    [status |-> 401, errors |-> <<>>, data |-> FALSE],
    [status |-> 403, errors |-> <<>>, data |-> FALSE],
    [status |-> 500, errors |-> <<>>, data |-> FALSE] }

\* Values of the env vars DRY_RUN, UPDATE_EXISTING and MANUAL_RUN_KEY.
EnvConfigs ==
  [ DRY_RUN : { <<>>, <<"T", "R", "U", "E">> },
    UPDATE_EXISTING : { <<>>, <<"0">> },
    MANUAL_RUN_KEY : { <<>>, <<" ">>, <<"k">>, <<" ", "k">> } ]

\* Values of the x-manual-run-key header (absent is <<>>).
HeaderInputs == { <<>>, <<"k">>, <<" ", "k">> }

BoardEmails == { ToLowerCase(Trim(e)) : e \in EmailInputs } \ { <<>> }

\* 23:59:00 Stockholm time (CET) of day 0.
StartMs == 22 * HourMs + 59 * MinuteMs

\* The clock's jumps, each to the start of a minute: a minute later, and the
\* 23 hours from 23:59 CET of day 0 to 23:59 CEST of day 1.
TickSteps == { MinuteMs, 23 * HourMs }

\* ---------------------------------------------------------------- state
VARIABLES
  now,        \* the wall clock (Date.now), ms
  ticks,      \* clock jumps so far
  env,        \* process.env
  storage,    \* the apps-sdk key-value storage: key -> None | Some(value)
  board,      \* the board: lowercased email -> items holding it
              \* (pre: there before the sync, sync: made by create_item)
  reqs,       \* the two request slots
  arrived,    \* requests received so far
  incidents,  \* incidents so far
  overlapped, \* history: some request arrived while another was being served
  lastWindowEnd, \* history: the endISO of the run that last wrote sync:lastRunISO
  passDates,  \* history: the Stockholm dates of the scheduled runs that called the source system
  advancedDates \* history: the dates written to sync:lastRunDateStockholm

vars == <<now, ticks, env, storage, board, reqs, arrived, incidents,
          overlapped, lastWindowEnd, passDates, advancedDates>>

Slot == { 1, 2 }

Idle == [pc |-> "idle"]

InFlight(p) == reqs[p].pc \notin { "idle", "done" }

Init ==
  /\ now = StartMs
  /\ ticks = 0
  /\ env \in EnvConfigs
  /\ storage = [k \in { ranKey, lastRunKey } |-> None]
  /\ board \in { [e \in BoardEmails |-> [pre |-> n, sync |-> 0]] : n \in { 0, 1 } }
  /\ reqs = [p \in Slot |-> Idle]
  /\ arrived = 0
  /\ incidents = 0
  /\ overlapped = FALSE
  /\ lastWindowEnd = None
  /\ passDates = <<>>
  /\ advancedDates = {}

\* An incident happens (is) only while the behaviour has incidents left.
Incident(is) ==
  /\ is => incidents < MaxIncidents
  /\ incidents' = IF is THEN incidents + 1 ELSE incidents

\* ------------------------------------------------- decisions of the code
\* Fault for C1: a gate that lets every scheduled run through.
GateAlwaysOpen(force, hour, minute) == TRUE

\* runSync's time gate.
GateOpen(force, hour, minute) == force \/ (hour = 23 /\ minute = 59)

\* Fault for C6: a protection that does not compare the header.
ManualAccessUnchecked(key, header) ==
  IF key = None THEN "disabled" ELSE "run"

\* POST /manual/run's protection: what the handler does with the request.
ManualAccess(key, header) ==
  IF key = None THEN "disabled"
  ELSE IF header # key THEN "forbidden"
  ELSE "run"

\* storage.get as the code reads it: {success, value}.
StorageGet(k, success) ==
  IF success THEN [success |-> TRUE, value |-> storage[k]]
  ELSE [success |-> FALSE, value |-> None]

\* Fault for C3: a guard that never finds the date stored.
GuardNeverSkips(already, yyyyMMdd) == FALSE

\* The run-once-per-day guard.
GuardSkips(already, yyyyMMdd) == already.success /\ already.value = Some(yyyyMMdd)

\* The start of the fetch window.
WindowStart(stored, t) ==
  LET storedLastRun == IF stored.success THEN stored.value ELSE None
  IN  IF storedLastRun # None /\ isValidIsoDate(storedLastRun[1])
      THEN storedLastRun[1]
      ELSE isoDaysAgoUtc(t, LookbackDays)

\* The error messages the code takes for an authentication failure
\* (/unauthorized|authentication|not authorized|invalid token/i).
AuthPattern(msg) == msg \in { "Unauthorized", "Invalid token" }

\* Fault for C2: HTTP 403 and error messages are not taken for an
\* authentication failure.
mondayGraphqlOnly401(res) ==
  IF res.status = 401 THEN "MondayAuthError"
  ELSE IF res.status < 200 \/ res.status > 299 THEN "Error"
  ELSE IF Len(res.errors) > 0 THEN "Error"
  ELSE IF ~res.data THEN "Error"
  ELSE "data"

\* mondayGraphql: the error it throws, or "data".
mondayGraphql(res) ==
  IF res.status = 401 \/ res.status = 403 THEN "MondayAuthError"
  ELSE IF res.status < 200 \/ res.status > 299 THEN "Error"
  ELSE IF Len(res.errors) > 0
       THEN IF \E k \in DOMAIN res.errors : AuthPattern(res.errors[k])
            THEN "MondayAuthError" ELSE "Error"
  ELSE IF ~res.data THEN "Error"
  ELSE "data"

\* goCreateFetchCustomersByDateRange: the error it throws, or "customers".
goCreateFetchCustomersByDateRange(res) ==
  IF ~res.ok THEN "Error"
  ELSE IF res.IsValidResult = FALSE THEN "Error"
  ELSE "customers"

\* mondayFindItemByColumnValue on a board that answers: is there an item?
mondayFindItemByColumnValue(value) == board[value].pre + board[value].sync > 0

\* Fault for C8: a catch block that swallows every error.
RethrowsNothing(name) == FALSE

\* The loop's catch: is the error thrown on?
Rethrows(name) == name = "MondayAuthError"

\* Fault for C4: an update is sent although UPDATE_EXISTING is off.
MutationAlwaysUpdates(found, dryRun, updateExisting) ==
  IF ~found THEN (IF ~dryRun THEN "create_item" ELSE "none")
  ELSE IF ~dryRun THEN "change_multiple_column_values" ELSE "none"

\* Fault for C7: the mutations are sent in a dry run too.
MutationIgnoresDryRun(found, dryRun, updateExisting) ==
  IF ~found THEN "create_item"
  ELSE IF ~updateExisting THEN "none"
  ELSE "change_multiple_column_values"

\* The mutation the loop sends for a customer after the lookup.
Mutation(found, dryRun, updateExisting) ==
  IF ~found THEN (IF ~dryRun THEN "create_item" ELSE "none")
  ELSE IF ~updateExisting THEN "none"
  ELSE IF ~dryRun THEN "change_multiple_column_values" ELSE "none"

\* The counter the loop increments for a customer after the lookup.
Counter(found, updateExisting) ==
  IF ~found THEN "created"
  ELSE IF ~updateExisting THEN "skippedExisting"
  ELSE "updated"

\* Fault for C5: state is advanced although records failed.
ShouldAdvanceDespiteErrors(force, dryRun, nErrors) == ~force /\ ~dryRun

\* "Advance state only on full success and not dry-run, and only when not forced."
ShouldAdvance(force, dryRun, nErrors) == ~force /\ ~dryRun /\ nErrors = 0

\* The status of POST /mndy-cronjob/sync-customers.
CronStatus(threw, skipped) ==
  IF threw # "none" THEN 500 ELSE IF skipped THEN 204 ELSE 200

\* The status of POST /manual/run once runSync was called.
ManualStatus(threw) == IF threw # "none" THEN 500 ELSE 200

\* ------------------------------------------------------------- requests
\* The locals of runSync at its first line, for a request received at t.
\* todo is what the loop has still to go through of customers, i the place
\* in customers of its head.  History, kept for the properties: secretsRead,
\* reads, writes, fetches, guardOk, prevEnd, calls (the calls made for the
\* customer last looked up), finds, misses, hits, authSeen, and sawAdvanced
\* (state had been advanced for the request's date when it arrived).
NewRun(kind, header, t) ==
  [ pc |-> "start", kind |-> kind, hdr |-> header, invoked |-> TRUE,
    force |-> (kind = "manual"),
    hour |-> stockholmParts(t).hour, minute |-> stockholmParts(t).minute,
    yyyyMMdd |-> stockholmParts(t).yyyyMMdd,
    dryRun |-> getEnvBool(env.DRY_RUN, FALSE),
    updateExisting |-> getEnvBool(env.UPDATE_EXISTING, TRUE),
    secretsRead |-> FALSE, reads |-> <<>>, writes |-> <<>>, fetches |-> 0,
    guardOk |-> FALSE, sawAdvanced |-> (stockholmParts(t).yyyyMMdd \in advancedDates),
    startISO |-> None, endISO |-> None, prevEnd |-> None,
    fetched |-> 0, todo |-> <<>>, i |-> 0, found |-> FALSE,
    created |-> 0, updated |-> 0, skippedExisting |-> 0, skippedNoEmail |-> 0,
    errors |-> <<>>, nowISO |-> None,
    calls |-> <<>>, finds |-> 0, misses |-> 0, hits |-> 0, authSeen |-> FALSE,
    out |-> "none", threw |-> "none", status |-> 0 ]

\* The handler answers: runSync has returned (out) or thrown (threw).
Answer(r) ==
  [r EXCEPT !.pc = "done",
            !.status = IF r.kind = "cron"
                       THEN CronStatus(r.threw, r.out \in { "skipped", "alreadyRan" })
                       ELSE ManualStatus(r.threw)]

\* The manual endpoint turns a request away before runSync.
Rejected(header, t, status) ==
  [NewRun("manual", header, t) EXCEPT !.pc = "done", !.invoked = FALSE, !.status = status]

Throw(r, name) == Answer([r EXCEPT !.threw = name])

\* After the loop: nowISO, the result, and whether state is advanced.
Finish(r, t) ==
  LET done == [r EXCEPT !.nowISO = Some(t), !.out = "result"]
  IN  IF ShouldAdvance(r.force, r.dryRun, Len(r.errors))
      THEN [done EXCEPT !.pc = "setLastRun"]
      ELSE Answer(done)

\* The customer the loop is at, and the email it looks up.
Current(r) == Head(r.todo)
EmailOf(c) == ToLowerCase(Trim(c.Email))

\* The loop goes on to the next customer.
Advance(r) == [r EXCEPT !.todo = Tail(@), !.i = @ + 1]

\* The loop from its head to its next await: customers without an email are
\* counted and passed over, the first one with an email is looked up; after
\* the last customer the run finishes.
RECURSIVE Loop(_, _)
Loop(r, t) ==
  IF r.todo = <<>> THEN Finish(r, t)
  ELSE IF Trim(Current(r).Email) = <<>>
       THEN Loop(Advance([r EXCEPT !.skippedNoEmail = @ + 1]), t)
  ELSE [r EXCEPT !.pc = "find"]

\* The loop's catch block.
Caught(r, name, t) ==
  IF Rethrows(name) THEN Throw(r, name)
  ELSE Loop(Advance([r EXCEPT !.errors = Append(@, [idx |-> r.i, email |-> Current(r).Email])]), t)

\* The counter of the branch taken is incremented, then sleep(120).
Bump(r) ==
  LET counter == Counter(r.found, r.updateExisting)
  IN  [r EXCEPT !.created = IF counter = "created" THEN @ + 1 ELSE @,
                !.updated = IF counter = "updated" THEN @ + 1 ELSE @,
                !.skippedExisting = IF counter = "skippedExisting" THEN @ + 1 ELSE @,
                !.pc = "sleep"]

\* After the lookup: the mutation is sent, or nothing is.
Branch(r) ==
  LET mutation == Mutation(r.found, r.dryRun, r.updateExisting)
  IN  IF mutation = "none" THEN Bump(r) ELSE [r EXCEPT !.pc = mutation]

\* What the request's call log keeps of an answer of the board system:
\* "auth" for HTTP 401/403 or an error message about authentication, "fail"
\* for any other answer that is not a success, "ok" for a success.
Reply(res) ==
  IF res.status \in { 401, 403 } THEN "auth"
  ELSE IF /\ res.status = 200
          /\ \E k \in DOMAIN res.errors : res.errors[k] \in { "Unauthorized", "Invalid token" }
       THEN "auth"
  ELSE IF res.status = 200 /\ res.errors = <<>> /\ res.data THEN "ok"
  ELSE "fail"

\* The call is entered in the request's log: a lookup starts the log anew.
Logged(r, op, value, res, found) ==
  LET call == [op |-> op, idx |-> r.i, value |-> value,
               reply |-> Reply(res), found |-> found]
  IN  [r EXCEPT !.calls = IF op = "find" THEN <<call>> ELSE Append(@, call),
                !.finds = IF op = "find" THEN @ + 1 ELSE @,
                !.misses = IF op = "find" /\ Reply(res) = "ok" /\ ~found THEN @ + 1 ELSE @,
                !.hits = IF op = "find" /\ Reply(res) = "ok" /\ found THEN @ + 1 ELSE @,
                !.authSeen = @ \/ Reply(res) = "auth"]

\* A request arrives and takes the first free slot.
Arrive(p) ==
  /\ arrived < MaxRequests
  /\ ~InFlight(p)
  /\ \A q \in Slot : q < p => InFlight(q)
  /\ arrived' = arrived + 1
  /\ LET overlap == \E q \in Slot : InFlight(q)
     IN  /\ Incident(overlap)
         /\ overlapped' = (overlapped \/ overlap)

\* runSync up to its first await: the time gate, then getSecrets is called.
runSyncStart(r) ==
  IF GateOpen(r.force, r.hour, r.minute)
  THEN [r EXCEPT !.pc = "secrets"]
  ELSE Answer([r EXCEPT !.out = "skipped"])

\* POST /mndy-cronjob/sync-customers arrives.
CronRequest(p) ==
  /\ Arrive(p)
  /\ reqs' = [reqs EXCEPT ![p] = runSyncStart(NewRun("cron", <<>>, now))]
  /\ UNCHANGED <<now, ticks, env, storage, board, lastWindowEnd, passDates, advancedDates>>

\* POST /manual/run arrives with header x-manual-run-key = header.
ManualRequest(p, header) ==
  /\ Arrive(p)
  /\ LET access == ManualAccess(getEnv(env.MANUAL_RUN_KEY), header)
     IN  reqs' = [reqs EXCEPT ![p] =
           IF access = "disabled" THEN Rejected(header, now, 404)
           ELSE IF access = "forbidden" THEN Rejected(header, now, 403)
           ELSE runSyncStart(NewRun("manual", header, now))]
  /\ UNCHANGED <<now, ticks, env, storage, board, lastWindowEnd, passDates, advancedDates>>

\* getSecrets returns the secrets, or a secret or a required env var is
\* missing and runSync throws; then the guard's storage.get is called (a
\* forced run: the window's).
GetSecrets(p, present) ==
  /\ reqs[p].pc = "secrets"
  /\ Incident(~present)
  /\ LET r == [reqs[p] EXCEPT !.secretsRead = TRUE]
     IN  reqs' = [reqs EXCEPT ![p] =
           IF ~present THEN Throw(r, "Error")
           ELSE [r EXCEPT !.pc = IF r.force THEN "window" ELSE "guard"]]
  /\ UNCHANGED <<now, ticks, env, storage, board, arrived, overlapped,
                 lastWindowEnd, passDates, advancedDates>>

\* The guard's storage.get(ranKey) of a scheduled run.
GuardRead(p, success) ==
  /\ reqs[p].pc = "guard"
  /\ Incident(~success)
  /\ LET already == StorageGet(ranKey, success)
         r == [reqs[p] EXCEPT !.reads = Append(@, ranKey), !.guardOk = already.success]
     IN  reqs' = [reqs EXCEPT ![p] =
           IF GuardSkips(already, r.yyyyMMdd)
           THEN Answer([r EXCEPT !.out = "alreadyRan"])
           ELSE [r EXCEPT !.pc = "window"]]
  /\ UNCHANGED <<now, ticks, env, storage, board, arrived, overlapped,
                 lastWindowEnd, passDates, advancedDates>>

\* storage.get(lastRunKey), then startISO and endISO, and the source system
\* is called.
WindowRead(p, success) ==
  /\ reqs[p].pc = "window"
  /\ Incident(~success)
  /\ LET stored == StorageGet(lastRunKey, success)
         r == reqs[p]
     IN  /\ reqs' = [reqs EXCEPT ![p] =
              [r EXCEPT !.pc = "fetch",
                        !.reads = Append(@, lastRunKey),
                        !.startISO = Some(WindowStart(stored, now)),
                        !.endISO = Some(now),
                        !.fetches = @ + 1,
                        !.prevEnd = IF stored.success /\ stored.value # None
                                    THEN lastWindowEnd ELSE None]]
         /\ passDates' = IF r.force THEN passDates ELSE Append(passDates, r.yyyyMMdd)
  /\ UNCHANGED <<now, ticks, env, storage, board, arrived, overlapped,
                 lastWindowEnd, advancedDates>>

\* The source system answers, and the loop starts.
Fetch(p, res) ==
  /\ reqs[p].pc = "fetch"
  /\ Incident(goCreateFetchCustomersByDateRange(res) = "Error")
  /\ LET r == reqs[p]
     IN  reqs' = [reqs EXCEPT ![p] =
           IF goCreateFetchCustomersByDateRange(res) = "Error" THEN Throw(r, "Error")
           ELSE Loop([r EXCEPT !.todo = res.CustomerInfo,
                               !.fetched = Len(res.CustomerInfo), !.i = 1], now)]
  /\ UNCHANGED <<now, ticks, env, storage, board, arrived, overlapped,
                 lastWindowEnd, passDates, advancedDates>>

\* The lookup of the customer's email on the board answers.
Find(p, res) ==
  /\ reqs[p].pc = "find"
  /\ Incident(Reply(res) # "ok")
  /\ LET email == EmailOf(Current(reqs[p]))
         answer == mondayGraphql(res)
         found == answer = "data" /\ mondayFindItemByColumnValue(email)
         r == Logged(reqs[p], "find", email, res, found)
     IN  reqs' = [reqs EXCEPT ![p] =
           IF answer = "data" THEN Branch([r EXCEPT !.found = found])
           ELSE Caught(r, answer, now)]
  /\ UNCHANGED <<now, ticks, env, storage, board, arrived, overlapped,
                 lastWindowEnd, passDates, advancedDates>>

\* mondayCreateItem answers.
Create(p, res) ==
  /\ reqs[p].pc = "create_item"
  /\ Incident(Reply(res) # "ok")
  /\ LET email == EmailOf(Current(reqs[p]))
         answer == mondayGraphql(res)
         r == Logged(reqs[p], "create_item", email, res, FALSE)
     IN  /\ reqs' = [reqs EXCEPT ![p] =
              IF answer = "data" THEN Bump(r) ELSE Caught(r, answer, now)]
         /\ board' = IF Reply(res) = "ok"
                     THEN [board EXCEPT ![email].sync = @ + 1]
                     ELSE board
  /\ UNCHANGED <<now, ticks, env, storage, arrived, overlapped,
                 lastWindowEnd, passDates, advancedDates>>

\* mondayUpdateItemColumns answers.
Update(p, res) ==
  /\ reqs[p].pc = "change_multiple_column_values"
  /\ Incident(Reply(res) # "ok")
  /\ LET email == EmailOf(Current(reqs[p]))
         answer == mondayGraphql(res)
         r == Logged(reqs[p], "change_multiple_column_values", email, res, FALSE)
     IN  reqs' = [reqs EXCEPT ![p] =
           IF answer = "data" THEN Bump(r) ELSE Caught(r, answer, now)]
  /\ UNCHANGED <<now, ticks, env, storage, board, arrived, overlapped,
                 lastWindowEnd, passDates, advancedDates>>

\* sleep(120) is over: the next customer.
Sleep(p) ==
  /\ reqs[p].pc = "sleep"
  /\ now' = now + SleepMs
  /\ reqs' = [reqs EXCEPT ![p] = Loop(Advance(reqs[p]), now')]
  /\ UNCHANGED <<ticks, env, storage, board, arrived, incidents, overlapped,
                 lastWindowEnd, passDates, advancedDates>>

\* storage.set(lastRunKey, nowISO)
SetLastRun(p) ==
  /\ reqs[p].pc = "setLastRun"
  /\ storage' = [storage EXCEPT ![lastRunKey] = reqs[p].nowISO]
  /\ lastWindowEnd' = reqs[p].endISO
  /\ reqs' = [reqs EXCEPT ![p] =
       [@ EXCEPT !.writes = Append(@, lastRunKey), !.pc = "setRanKey"]]
  /\ UNCHANGED <<now, ticks, env, board, arrived, incidents, overlapped,
                 passDates, advancedDates>>

\* storage.set(ranKey, yyyyMMdd), and runSync returns the result.
SetRanKey(p) ==
  /\ reqs[p].pc = "setRanKey"
  /\ storage' = [storage EXCEPT ![ranKey] = Some(reqs[p].yyyyMMdd)]
  /\ advancedDates' = advancedDates \cup { reqs[p].yyyyMMdd }
  /\ reqs' = [reqs EXCEPT ![p] = Answer([reqs[p] EXCEPT !.writes = Append(@, ranKey)])]
  /\ UNCHANGED <<now, ticks, env, board, arrived, incidents, overlapped,
                 lastWindowEnd, passDates>>

\* Time passes between requests.
Tick(d) ==
  /\ \A p \in Slot : ~InFlight(p)
  /\ ticks < MaxTicks
  /\ ticks' = ticks + 1
  /\ now' = ((now + d) \div MinuteMs) * MinuteMs
  /\ UNCHANGED <<env, storage, board, reqs, arrived, incidents, overlapped,
                 lastWindowEnd, passDates, advancedDates>>

Next ==
  \/ \E p \in Slot : CronRequest(p)
  \/ \E p \in Slot, header \in HeaderInputs : ManualRequest(p, header)
  \/ \E p \in Slot, present \in BOOLEAN : GetSecrets(p, present)
  \/ \E p \in Slot, success \in BOOLEAN : GuardRead(p, success)
  \/ \E p \in Slot, success \in BOOLEAN : WindowRead(p, success)
  \/ \E p \in Slot, res \in SourceResponses : Fetch(p, res)
  \/ \E p \in Slot, res \in MondayResponses : Find(p, res)
  \/ \E p \in Slot, res \in MondayResponses : Create(p, res)
  \/ \E p \in Slot, res \in MondayResponses : Update(p, res)
  \/ \E p \in Slot : Sleep(p)
  \/ \E p \in Slot : SetLastRun(p)
  \/ \E p \in Slot : SetRanKey(p)
  \/ \E d \in TickSteps : Tick(d)

Spec == Init /\ [][Next]_vars

\* ---------------------------------------------------------- properties
\* The slots that hold a request, in flight or answered.
Served == { p \in Slot : reqs[p].pc # "idle" }

MutationOps == { "create_item", "change_multiple_column_values" }

HasOp(r, op) == \E k \in DOMAIN r.calls : r.calls[k].op = op

Last(q) == q[Len(q)]

\* The customer the call log is about is still the loop's current one.
AtCustomer(r) == r.pc \in { "create_item", "change_multiple_column_values", "sleep" }

\* C1: a scheduled request received when it is not 23:59 in Stockholm is
\* answered at once with 204, runSync having returned {skipped: true}; it
\* has read no secret, called neither the source system nor the board
\* system, and read or written no storage key.
C1_GateClosedRunDoesNothing ==
  \A p \in Served :
    LET r == reqs[p]
    IN  (r.kind = "cron" /\ ~(r.hour = 23 /\ r.minute = 59)) =>
          /\ r.pc = "done" /\ r.out = "skipped" /\ r.threw = "none" /\ r.status = 204
          /\ ~r.secretsRead
          /\ r.fetches = 0 /\ r.finds = 0 /\ r.calls = <<>>
          /\ r.reads = <<>> /\ r.writes = <<>>

\* A scheduled request was received at 00:00 and answered 204.
C1_Witness ==
  \E p \in Served :
    /\ reqs[p].kind = "cron" /\ reqs[p].hour = 0 /\ reqs[p].minute = 0
    /\ reqs[p].status = 204

\* C2: a run one of whose board-system calls was answered with an
\* authentication failure (HTTP 401 or 403, or an error message about
\* authentication) has ended, has written neither sync:lastRunISO nor
\* sync:lastRunDateStockholm, and its endpoint has answered 500.
C2_AuthErrorKeepsLastRun ==
  \A p \in Served :
    LET r == reqs[p]
    IN  r.authSeen =>
          /\ r.pc = "done" /\ r.status = 500
          /\ r.writes = <<>>

\* A scheduled run was answered 403 by the board system after it had
\* already created an item, and was answered 500.
C2_Witness ==
  \E p \in Served :
    /\ reqs[p].kind = "cron" /\ reqs[p].authSeen /\ reqs[p].status = 500
    /\ reqs[p].created = 1

\* C3, as stated: no Stockholm date sees more than one scheduled run call
\* the source system.
C3_AtMostOnePassPerDate ==
  \A a, b \in DOMAIN passDates : a # b => passDates[a] # passDates[b]

\* C3, as it holds: a scheduled request that arrives after a scheduled run
\* has advanced state for the same Stockholm date, and whose read of the
\* guard key succeeds, is answered 204 with {skipped, alreadyRan} and has
\* called neither the source system nor the board system.
C3_SkippedOnceAdvanced ==
  \A p \in Served :
    LET r == reqs[p]
    IN  (r.kind = "cron" /\ r.sawAdvanced /\ r.guardOk) =>
          /\ r.pc = "done" /\ r.out = "alreadyRan" /\ r.status = 204
          /\ r.fetches = 0 /\ r.finds = 0 /\ r.calls = <<>>
          /\ r.writes = <<>>

\* A scheduled request was skipped by the guard on a date a run had advanced
\* state for.
C3_Witness ==
  \E p \in Served :
    /\ reqs[p].kind = "cron" /\ reqs[p].sawAdvanced /\ reqs[p].guardOk
    /\ reqs[p].yyyyMMdd \in advancedDates
    /\ reqs[p].status = 204

\* C4, as stated: once a customer with an email has been processed, an item
\* was created iff the lookup found none, and the item was updated iff the
\* lookup found one and UPDATE_EXISTING is on.
C4_BranchByLookup ==
  \A p \in Served :
    LET r == reqs[p]
    IN  r.pc = "sleep" =>
          /\ HasOp(r, "create_item") <=> ~r.calls[1].found
          /\ HasOp(r, "change_multiple_column_values")
               <=> (r.calls[1].found /\ r.updateExisting)

\* C4, as it holds: the calls made for a customer start with the lookup of
\* its trimmed, lowercased, non-empty email, followed by at most one
\* mutation; create_item is sent only after a lookup that found no item,
\* an update only after one that found an item with UPDATE_EXISTING on, and
\* both only with DRY_RUN off; once the customer is processed with DRY_RUN
\* off, an item was created iff the lookup found none and updated iff it
\* found one and UPDATE_EXISTING is on, and with DRY_RUN on no mutation was
\* sent.  A found item with UPDATE_EXISTING off is what skippedExisting
\* counts, and customers without an email are counted and cause no call:
\* lookups and skippedNoEmail add up to the customers gone through.
C4_BranchByLookupUnlessDryRun ==
  \A p \in Served :
    LET r == reqs[p]
        find == r.calls[1]
    IN  /\ r.calls # <<>> =>
             /\ find.op = "find" /\ find.value # <<>>
             /\ Len(r.calls) <= 2
             /\ \A k \in 2..Len(r.calls) : r.calls[k].op \in MutationOps
             /\ HasOp(r, "create_item") =>
                  (find.reply = "ok" /\ ~find.found /\ ~r.dryRun)
             /\ HasOp(r, "change_multiple_column_values") =>
                  (find.reply = "ok" /\ find.found /\ r.updateExisting /\ ~r.dryRun)
             /\ AtCustomer(r) =>
                  /\ find.idx = r.i
                  /\ find.value = ToLowerCase(Trim(Current(r).Email))
                  /\ find.value = Trim(find.value)
             /\ (r.pc = "sleep" /\ ~r.dryRun) =>
                  /\ HasOp(r, "create_item") <=> ~find.found
                  /\ HasOp(r, "change_multiple_column_values")
                       <=> (find.found /\ r.updateExisting)
             /\ (r.pc = "sleep" /\ r.dryRun) => Len(r.calls) = 1
        /\ r.skippedExisting = IF r.updateExisting THEN 0 ELSE r.hits
        /\ r.pc = "find" => Trim(Current(r).Email) # <<>>
        /\ (r.pc \in { "find", "setLastRun", "setRanKey" } \/ r.out = "result") =>
             r.finds + r.skippedNoEmail = r.i - 1
        /\ AtCustomer(r) => r.finds + r.skippedNoEmail = r.i

\* With DRY_RUN off, the second customer of a list was found on the board
\* with UPDATE_EXISTING off and passed by without a board write, after a
\* first customer without an email.
C4_Witness ==
  \E p \in Served :
    LET r == reqs[p]
    IN  /\ r.pc = "sleep" /\ ~r.dryRun /\ ~r.updateExisting
        /\ r.i = 2 /\ r.skippedNoEmail = 1
        /\ r.calls[1].found /\ Len(r.calls) = 1
        /\ r.skippedExisting = 1

\* C5: a run that went through the pass has written sync:lastRunISO and then
\* sync:lastRunDateStockholm if it is scheduled, DRY_RUN is off, nothing was
\* thrown and errors is empty; a run that has written either key is such a
\* run; every other run (forced, dry, with a per-record error, or ended by
\* an exception) has written neither.
C5_AdvanceOnlyOnFullSuccess ==
  \A p \in Served :
    LET r == reqs[p]
        full == r.kind = "cron" /\ ~r.dryRun /\ r.threw = "none" /\ r.errors = <<>>
    IN  /\ r.writes \in { <<>>, <<lastRunKey>>, <<lastRunKey, ranKey>> }
        /\ r.writes # <<>> => (full /\ r.out = "result")
        /\ (r.pc = "done" /\ r.fetches > 0) =>
             (r.writes = <<lastRunKey, ranKey>> <=> full)

\* A scheduled run ended with a result and a per-record error, and state
\* was never advanced.
C5_Witness ==
  \E p \in Served :
    /\ reqs[p].pc = "done" /\ reqs[p].kind = "cron" /\ ~reqs[p].dryRun
    /\ reqs[p].out = "result" /\ Len(reqs[p].errors) = 1
    /\ reqs[p].writes = <<>>
    /\ storage[ranKey] = None

C7_DryRunChangesNothing ==
  \A p \in Served :
    LET r == reqs[p]
    IN  (r.invoked /\ r.dryRun) =>
          /\ \A k \in DOMAIN r.calls : r.calls[k].op = "find"
          /\ r.pc \notin MutationOps \cup { "setLastRun", "setRanKey" }
          /\ r.writes = <<>>
          /\ \A e \in BoardEmails : board[e].sync = 0
          /\ \A k \in { ranKey, lastRunKey } : storage[k] = None
          /\ r.created = r.misses
          /\ r.updated = IF r.updateExisting THEN r.hits ELSE 0
          /\ r.out = "result" =>
               /\ r.fetches = 1
               /\ r.finds + r.skippedNoEmail = r.fetched

\* A dry run ended with a result after two lookups, and its result counts
\* both customers as created or updated.
C7_Witness ==
  \E p \in Served :
    /\ reqs[p].dryRun /\ reqs[p].pc = "done" /\ reqs[p].out = "result"
    /\ reqs[p].finds = 2 /\ reqs[p].created + reqs[p].updated = 2

\* C8: a call for a customer that fails with another error than an
\* authentication failure puts the customer in errors and the loop goes on
\* with the next customer, up to a result that has gone through the whole
\* list; after an authentication failure the run has ended with
\* MondayAuthError and without a result, the failed call is the last call
\* it made and its customer the last one the loop was at, and the failure
\* is not in errors.
C8_ErrorsIsolatedAuthAborts ==
  \A p \in Served :
    LET r == reqs[p]
    IN  /\ \A k \in DOMAIN r.errors :
             /\ r.errors[k].idx < r.i
             /\ k > 1 => r.errors[k - 1].idx < r.errors[k].idx
        /\ (r.calls # <<>> /\ Last(r.calls).reply = "fail") =>
             /\ r.errors # <<>>
             /\ Last(r.errors).idx = Last(r.calls).idx
             /\ r.threw = "none"
             /\ r.pc \in { "find", "done" }
             /\ r.pc = "done" => r.out = "result"
        /\ r.out = "result" => r.finds + r.skippedNoEmail = r.fetched
        /\ r.authSeen =>
             /\ r.pc = "done" /\ r.threw = "MondayAuthError" /\ r.out = "none"
             /\ Last(r.calls).reply = "auth"
             /\ Last(r.calls).idx = r.i
             /\ \A k \in DOMAIN r.errors : r.errors[k].idx # r.i
        /\ (\E k \in DOMAIN r.calls : r.calls[k].reply # "ok") =>
             Last(r.calls).reply # "ok"

\* The create for the first customer failed with HTTP 500, and the second
\* customer was looked up and created all the same.
C8_Witness ==
  \E p \in Served :
    LET r == reqs[p]
    IN  /\ r.pc = "done" /\ r.out = "result"
        /\ Len(r.errors) = 1 /\ r.errors[1].idx = 1
        /\ r.finds = 2 /\ r.created = 1
        /\ Len(r.calls) = 2 /\ r.calls[1].idx = 2

\* C9: the window of a state-advancing scheduled run that takes its start
\* from sync:lastRunISO starts no later than the endISO the run that wrote
\* the key sent to the source system (stated for behaviours without an
\* incident: no failure of the outside world, no overlapping requests).
C9_WindowsLeaveNoGap ==
  \A p \in Served :
    LET r == reqs[p]
    IN  (incidents = 0 /\ r.kind = "cron" /\ r.writes # <<>> /\ r.prevEnd # None) =>
          r.startISO[1] <= r.prevEnd[1]

\* C10: the board never holds two items the sync created for one email, and
\* none for an email that had an item before the sync.
C10_OneItemPerEmail ==
  \A e \in BoardEmails :
    /\ board[e].sync <= 1
    /\ board[e].pre > 0 => board[e].sync = 0

====
